---- MODULE Spec2Model ----
(***************************************************************************)
(* Model of src/signing_key.rs (ed25519-zebra): the SigningKey value, its  *)
(* constructors, the PKCS#8 encode / decode operations, zeroize and sign.  *)
(*                                                                         *)
(* Bytes are integers 0..255 and byte strings are sequences of bytes, with *)
(* the lengths of the source (32-byte seeds, 34-byte framed payloads).     *)
(* The primitives the file imports from other crates (SHA-512, the         *)
(* curve25519 scalar and point arithmetic, the DER writer of pkcs8) are    *)
(* modelled by small deterministic stand-ins with the same shape: a        *)
(* 64-byte digest of a byte string, scalars modulo a group order, a cyclic *)
(* group generated by the base point, and a tag-length-value encoding.     *)
(***************************************************************************)
EXTENDS Integers, Sequences

\* ------------------------------------------------------------------------
\* Bounds of the model
\* ------------------------------------------------------------------------
NumSeeds == 2
MaxMsgLen == 2

\* ------------------------------------------------------------------------
\* Byte helpers
\* ------------------------------------------------------------------------
SeedLen == 32

Zero32 == [j \in 1..SeedLen |-> 0]

RECURSIVE BitAnd(_, _)
BitAnd(a, b) ==
    IF a = 0 \/ b = 0 THEN 0
    ELSE (a % 2) * (b % 2) + 2 * BitAnd(a \div 2, b \div 2)

RECURSIVE BitOr(_, _)
BitOr(a, b) ==
    IF a = 0 THEN b
    ELSE IF b = 0 THEN a
    ELSE (IF a % 2 = 1 \/ b % 2 = 1 THEN 1 ELSE 0) + 2 * BitOr(a \div 2, b \div 2)

\* little-endian bytes of n, len bytes long
RECURSIVE ToLE(_, _)
ToLE(n, len) ==
    IF len = 0 THEN <<>> ELSE <<n % 256>> \o ToLE(n \div 256, len - 1)

\* ------------------------------------------------------------------------
\* hex crate: encode / decode_to_slice
\* ------------------------------------------------------------------------
HexChars == <<"0", "1", "2", "3", "4", "5", "6", "7",
              "8", "9", "a", "b", "c", "d", "e", "f">>

\* hex::encode: two lower-case digits per byte, high nibble first
RECURSIVE HexEncode(_)
HexEncode(bytes) ==
    IF bytes = <<>> THEN <<>>
    ELSE <<HexChars[(bytes[1] \div 16) + 1], HexChars[(bytes[1] % 16) + 1]>>
         \o HexEncode(Tail(bytes))

HexVal(c) == (CHOOSE i \in 1..16 : HexChars[i] = c) - 1

\* hex::decode_to_slice(str, out): fills out from the digits of str; on a
\* length mismatch it returns an error (discarded by .ok()) and out is kept.
HexDecodeToSlice(str, out) ==
    IF Len(str) # 2 * Len(out) THEN out
    ELSE [i \in 1..Len(out) |-> 16 * HexVal(str[2 * i - 1]) + HexVal(str[2 * i])]

\* the literal "0420" of to_pkcs8_der and from_pkcs8_private_key_info
Str0420 == <<"0", "4", "2", "0">>

\* ------------------------------------------------------------------------
\* sha2 crate: Sha512 (stand-in: a 64-byte digest of a byte string)
\*
\* The digest is a primitive of another crate.  The stand-in keeps what
\* signing_key.rs relies on: 64 bytes out, a deterministic function of the
\* whole byte string and of its length.  Its byte values are not those of
\* SHA-512, and no property below depends on a digest value.
\* ------------------------------------------------------------------------
DigestLen == 64

HashModulus == 32719

\* b^e modulo m, by repeated squaring
RECURSIVE PowMod(_, _, _)
PowMod(b, e, m) ==
    IF e = 0 THEN 1 % m
    ELSE LET h == PowMod(b, e \div 2, m)
         IN  (((h * h) % m) * (IF e % 2 = 1 THEN b ELSE 1)) % m

\* the absorbed value of bytes[lo..hi]: a polynomial in the bytes
RECURSIVE Absorb(_, _, _)
Absorb(bytes, lo, hi) ==
    IF lo > hi THEN 0
    ELSE IF lo = hi THEN (bytes[lo] + 1) % HashModulus
    ELSE LET mid == (lo + hi) \div 2
         IN  (Absorb(bytes, lo, mid) * PowMod(131, hi - mid, HashModulus)
              + Absorb(bytes, mid + 1, hi)) % HashModulus

Sha512(bytes) ==
    LET h == (Absorb(bytes, 1, Len(bytes)) + 17 * (Len(bytes) + 1)) % HashModulus
    IN  [i \in 1..DigestLen |-> (((h + i * i) * (2 * i + 1)) \div 7) % 256]

\* ------------------------------------------------------------------------
\* curve25519_dalek: Scalar and the base point (stand-in: the cyclic group
\* of order GroupOrder, a point being its discrete logarithm)
\*
\* Scalar and point arithmetic are primitives of another crate.  The
\* stand-in keeps their algebra: scalars are 32 little-endian bytes, from_hash,
\* + and * reduce modulo the order of the base point, from_bits does not
\* reduce, the base point generates a cyclic group of that order, -P is the
\* inverse of P, and compress is injective with the top bit of byte 31 as a
\* sign.  The order is a small prime in place of 2^252 + 277...493, so the
\* reduced values and the point encodings are not those of the crate.
\* ------------------------------------------------------------------------
GroupOrder == 32749

\* integer value of little-endian bytes, modulo the group order
RECURSIVE LERange(_, _, _)
LERange(bytes, lo, hi) ==
    IF lo > hi THEN 0
    ELSE IF lo = hi THEN bytes[lo] % GroupOrder
    ELSE LET mid == (lo + hi) \div 2
         IN  (LERange(bytes, lo, mid)
              + PowMod(256, mid - lo + 1, GroupOrder) * LERange(bytes, mid + 1, hi))
             % GroupOrder

LEModOrder(bytes) == LERange(bytes, 1, Len(bytes))

\* Scalar::from_bits: the bytes as given, with the top bit cleared
ScalarFromBits(bytes) == [bytes EXCEPT ![32] = BitAnd(bytes[32], 127)]

\* Scalar::from_hash: the 64-byte digest reduced modulo the group order
ScalarFromHash(digest) == ToLE(LEModOrder(digest), 32)

\* Scalar addition and multiplication (results are reduced)
ScalarAdd(a, b) == ToLE((LEModOrder(a) + LEModOrder(b)) % GroupOrder, 32)
ScalarMul(a, b) == ToLE((LEModOrder(a) * LEModOrder(b)) % GroupOrder, 32)

\* &s * &ED25519_BASEPOINT_TABLE
BasepointMul(s) == LEModOrder(s)

\* -A
PointNeg(P) == (GroupOrder - P) % GroupOrder

\* P.compress().to_bytes(): 32 bytes, the top bit carrying a sign
Compress(P) ==
    LET y == ToLE((3 * P + 1) % GroupOrder, 32)
    IN  [y EXCEPT ![32] = BitOr(y[32], 128 * (P % 2))]

\* ------------------------------------------------------------------------
\* pkcs8 crate: AlgorithmIdentifier, PrivateKeyInfo, PrivateKeyDocument
\* ------------------------------------------------------------------------
\* absent parameters of an AlgorithmIdentifier
None == <<>>

\* const OID = ObjectIdentifier::new("1.3.101.112")
OID == <<1, 3, 101, 112>>

\* const ALGORITHM_ID = AlgorithmIdentifier { oid: OID, parameters: None }
ALGORITHM_ID == [oid |-> OID, parameters |-> None]

\* DER length octets (short form below 128, one-octet long form above)
DerLen(n) == IF n < 128 THEN <<n>> ELSE <<129, n>>

TLV(tag, content) == <<tag>> \o DerLen(Len(content)) \o content

\* base-128 digits of an arc, continuation bit on all but the last
RECURSIVE Base128(_, _)
Base128(n, last) ==
    LET d == (n % 128) + (IF last THEN 0 ELSE 128)
    IN  IF n < 128 THEN <<d>> ELSE Base128(n \div 128, FALSE) \o <<d>>

RECURSIVE ArcsBody(_)
ArcsBody(arcs) ==
    IF arcs = <<>> THEN <<>> ELSE Base128(arcs[1], TRUE) \o ArcsBody(Tail(arcs))

OidBody(oid) == <<40 * oid[1] + oid[2]>> \o ArcsBody(SubSeq(oid, 3, Len(oid)))

\* PrivateKeyInfo -> PrivateKeyDocument: SEQUENCE { INTEGER 0,
\* SEQUENCE { OID, parameters }, OCTET STRING private_key }
EncodeDer(pki) ==
    TLV(48, TLV(2, <<0>>)
            \o TLV(48, TLV(6, OidBody(pki.algorithm.oid)) \o pki.algorithm.parameters)
            \o TLV(4, pki.private_key))

\* the tag-length-value element starting at position pos
ReadTLV(bytes, pos) ==
    LET long  == bytes[pos + 1] >= 128
        len   == IF long THEN bytes[pos + 2] ELSE bytes[pos + 1]
        start == IF long THEN pos + 3 ELSE pos + 2
    IN  [tag |-> bytes[pos], content |-> SubSeq(bytes, start, start + len - 1),
         next |-> start + len]

RECURSIVE ArcsOf(_, _)
ArcsOf(body, acc) ==
    IF body = <<>> THEN <<>>
    ELSE IF body[1] >= 128 THEN ArcsOf(Tail(body), acc * 128 + (body[1] - 128))
    ELSE <<acc * 128 + body[1]>> \o ArcsOf(Tail(body), 0)

OidOf(body) == <<body[1] \div 40, body[1] % 40>> \o ArcsOf(Tail(body), 0)

\* PrivateKeyDocument -> PrivateKeyInfo
DecodeDer(der) ==
    LET outer == ReadTLV(der, 1).content
        ver   == ReadTLV(outer, 1)
        alg   == ReadTLV(outer, ver.next)
        key   == ReadTLV(outer, alg.next)
        oid   == ReadTLV(alg.content, 1)
    IN  [algorithm |-> [oid |-> OidOf(oid.content),
                        parameters |-> SubSeq(alg.content, oid.next, Len(alg.content))],
         private_key |-> key.content]

\* ------------------------------------------------------------------------
\* SigningKey and the results of its operations
\* ------------------------------------------------------------------------
\* no key (the empty slot of a result, and the state before construction)
NoKey == [seed |-> <<>>, s |-> <<>>, prefix |-> <<>>,
          vk |-> [minus_A |-> 0, A_bytes |-> <<>>]]

Ok(k) == [tag |-> "Ok", key |-> k, err |-> "None"]
Err(e) == [tag |-> "Err", key |-> NoKey, err |-> e]
Panic == [tag |-> "Panic", key |-> NoKey, err |-> "None"]

\* Clamp without line 92 (bit 254 is never set)
Clamp_NoSet(scalar_bytes) ==
    [scalar_bytes EXCEPT ![1] = BitAnd(scalar_bytes[1], 248),
                         ![32] = BitAnd(scalar_bytes[32], 127)]

\* lines 90-92: the Ed25519 clamping of the low half of the digest
Clamp(scalar_bytes) ==
    LET b0  == BitAnd(scalar_bytes[1], 248)
        b31 == BitOr(BitAnd(scalar_bytes[32], 127), 64)
    IN  [scalar_bytes EXCEPT ![1] = b0, ![32] = b31]

\* impl From<[u8; 32]> for SigningKey
FromBytes(seed) ==
    LET h      == Sha512(seed)
        s      == ScalarFromBits(Clamp(SubSeq(h, 1, 32)))
        prefix == SubSeq(h, 33, 64)
        A      == BasepointMul(s)
    IN  [seed |-> seed, s |-> s, prefix |-> prefix,
         vk |-> [minus_A |-> PointNeg(A), A_bytes |-> Compress(A)]]

\* TryFromSlice accepting any slice of at least 32 bytes (its first 32)
TryFromSlice_AtLeast(slice) ==
    IF Len(slice) >= 32
    THEN Ok(FromBytes([i \in 1..32 |-> slice[i]]))
    ELSE Err("InvalidSliceLength")

\* impl TryFrom<&[u8]> for SigningKey
TryFromSlice(slice) ==
    IF Len(slice) = 32
    THEN Ok(FromBytes([i \in 1..32 |-> slice[i]]))
    ELSE Err("InvalidSliceLength")

\* impl TryFrom<PrivateKeyInfo> for SigningKey
TryFromPrivateKeyInfo(pki) ==
    IF pki.algorithm = ALGORITHM_ID
    THEN TryFromSlice(pki.private_key)
    ELSE Err("MalformedSecretKey")

\* ToPrivateKeyInfo chaining the seed before the framing bytes
ToPrivateKeyInfo_SeedFirst(k) ==
    LET octetstring_array == HexDecodeToSlice(Str0420, <<0, 0>>)
        key_byte_sequence == k.seed \o octetstring_array
        final_key == [i \in 1..34 |->
                        IF i <= Len(key_byte_sequence) THEN key_byte_sequence[i] ELSE 0]
    IN  [algorithm |-> ALGORITHM_ID, private_key |-> final_key]

\* to_pkcs8_der, lines 133-150: the PrivateKeyInfo handed to the DER writer
ToPrivateKeyInfo(k) ==
    LET octetstring_array == HexDecodeToSlice(Str0420, <<0, 0>>)
        key_byte_sequence == octetstring_array \o k.seed
        final_key == [i \in 1..34 |->
                        IF i <= Len(key_byte_sequence) THEN key_byte_sequence[i] ELSE 0]
    IN  [algorithm |-> ALGORITHM_ID, private_key |-> final_key]

\* impl ToPrivateKey for SigningKey: to_pkcs8_der
ToPkcs8Der(k) == EncodeDer(ToPrivateKeyInfo(k))

\* FromPkcs8PrivateKeyInfo comparing only the tag octet of the framing
FromPkcs8PrivateKeyInfo_TagOnly(pki) ==
    IF Len(pki.private_key) < 2 THEN Panic
    ELSE LET octetstring_prefix == SubSeq(pki.private_key, 1, 1)
             private_key == SubSeq(pki.private_key, 3, Len(pki.private_key))
         IN  IF HexEncode(octetstring_prefix) # SubSeq(Str0420, 1, 2)
             THEN Err("Decode")
             ELSE LET r == TryFromSlice(private_key)
                  IN  IF r.tag = "Ok" THEN r ELSE Err("Decode")

\* impl FromPrivateKey for SigningKey: from_pkcs8_private_key_info
\* (split_at(2) panics on a payload shorter than 2 bytes)
FromPkcs8PrivateKeyInfo(pki) ==
    IF Len(pki.private_key) < 2 THEN Panic
    ELSE LET octetstring_prefix == SubSeq(pki.private_key, 1, 2)
             private_key == SubSeq(pki.private_key, 3, Len(pki.private_key))
         IN  IF HexEncode(octetstring_prefix) # Str0420
             THEN Err("Decode")
             ELSE LET r == TryFromSlice(private_key)
                  IN  IF r.tag = "Ok" THEN r ELSE Err("Decode")

\* impl From<PrivateKeyDocument> for SigningKey (expect panics on an error)
FromDocument(der) ==
    LET pki == DecodeDer(der)
        r   == TryFromSlice(pki.private_key)
    IN  IF r.tag = "Ok" THEN r ELSE Panic

\* ZeroizeKey without line 186 (the scalar is kept)
ZeroizeKey_SeedOnly(k) == [k EXCEPT !.seed = Zero32]

\* impl Zeroize for SigningKey
ZeroizeKey(k) == [k EXCEPT !.seed = Zero32, !.s = Zero32]

\* SignMsg without the public key in the challenge hash (line 225)
SignMsg_NoKeyInChallenge(k, msg) ==
    LET r       == ScalarFromHash(Sha512(k.prefix \o msg))
        R_bytes == Compress(BasepointMul(r))
        kk      == ScalarFromHash(Sha512(R_bytes \o msg))
        s_bytes == ScalarAdd(r, ScalarMul(kk, k.s))
    IN  [R_bytes |-> R_bytes, s_bytes |-> s_bytes]

\* SigningKey::sign
SignMsg(k, msg) ==
    LET r       == ScalarFromHash(Sha512(k.prefix \o msg))
        R_bytes == Compress(BasepointMul(r))
        kk      == ScalarFromHash(Sha512(R_bytes \o k.vk.A_bytes \o msg))
        s_bytes == ScalarAdd(r, ScalarMul(kk, k.s))
    IN  [R_bytes |-> R_bytes, s_bytes |-> s_bytes]

\* ------------------------------------------------------------------------
\* Inputs
\* ------------------------------------------------------------------------
\* Seed(0) is the all-zero seed
Seed(i) == [j \in 1..SeedLen |-> (i * (29 + 5 * j)) % 256]

SeedSet == {Seed(i) : i \in 0..(NumSeeds - 1)}

Fill(n) == [j \in 1..n |-> (7 * j + 3) % 256]

\* slices of the right length and of lengths 0, 31 and 33
SliceSet == SeedSet \cup {Fill(n) : n \in {0, 31, 33}}

\* payloads of a private-key-info: framed seeds, bare seeds, wrong lengths
\* after the framing, wrong framing bytes, and one shorter than the framing
PayloadSet ==
    {<<4, 32>> \o sd : sd \in SeedSet} \cup SeedSet
    \cup {<<4, 32>> \o Fill(n) : n \in {0, 31, 33}}
    \cup {<<4, 33>> \o Seed(1), <<5, 32>> \o Seed(1), <<4>>}

OtherAlgs ==
    {[oid |-> OID, parameters |-> <<5, 0>>],
     [oid |-> <<1, 2, 840, 10045, 2, 1>>, parameters |-> None]}

PkiSet ==
    [algorithm : {ALGORITHM_ID}, private_key : PayloadSet]
    \cup [algorithm : OtherAlgs, private_key : {<<4, 32>> \o Seed(1), Seed(1), <<4>>}]

MsgSet == {[j \in 1..n |-> (97 * j) % 256] : n \in 0..MaxMsgLen}

\* ------------------------------------------------------------------------
\* State
\* ------------------------------------------------------------------------
VARIABLES
    sk,     \* the SigningKey held by the caller, or NoKey
    doc,    \* the last document written by to_pkcs8_der
    last    \* the last operation: its name, its input and what it returned

vars == <<sk, doc, last>>

NoAlg == [oid |-> <<>>, parameters |-> None]
NoSig == [R_bytes |-> <<>>, s_bytes |-> <<>>]
NoOut == [tag |-> "None", key |-> NoKey, err |-> "None"]
NoDoc == <<>>

Op(name, alg, bytes, out, data, sig) ==
    [op |-> name, alg |-> alg, bytes |-> bytes, out |-> out,
     data |-> data, vk |-> NoKey.vk, sig |-> sig]

\* a panic ends the program
Running == last.out.tag # "Panic"

\* the key after an operation that returned r: replaced on success only
Keep(r) == IF r.tag = "Ok" THEN r.key ELSE sk

Init ==
    /\ sk = NoKey
    /\ doc = NoDoc
    /\ last = Op("init", NoAlg, <<>>, NoOut, <<>>, NoSig)

\* SigningKey::new(rng): 32 bytes from the generator, then From<[u8; 32]>
New ==
    \E bytes \in SeedSet :
        /\ Running
        /\ sk' = FromBytes(bytes)
        /\ last' = Op("new", NoAlg, bytes, Ok(sk'), <<>>, NoSig)
        /\ UNCHANGED doc

\* SigningKey::from(seed)
From32 ==
    \E seed \in SeedSet :
        /\ Running
        /\ sk' = FromBytes(seed)
        /\ last' = Op("from", NoAlg, seed, Ok(sk'), <<>>, NoSig)
        /\ UNCHANGED doc

\* SigningKey::try_from(slice)
TryFromSliceOp ==
    \E slice \in SliceSet :
        LET r == TryFromSlice(slice)
        IN  /\ Running
            /\ sk' = Keep(r)
            /\ last' = Op("try_from_slice", NoAlg, slice, r, <<>>, NoSig)
            /\ UNCHANGED doc

\* SigningKey::try_from(pki)
TryFromPrivateKeyInfoOp ==
    \E pki \in PkiSet :
        LET r == TryFromPrivateKeyInfo(pki)
        IN  /\ Running
            /\ sk' = Keep(r)
            /\ last' = Op("try_from_pki", pki.algorithm, pki.private_key, r, <<>>, NoSig)
            /\ UNCHANGED doc

\* SigningKey::from_pkcs8_private_key_info(pki)
FromPkcs8PrivateKeyInfoOp ==
    \E pki \in PkiSet :
        LET r == FromPkcs8PrivateKeyInfo(pki)
        IN  /\ Running
            /\ sk' = Keep(r)
            /\ last' = Op("from_pkcs8_private_key_info", pki.algorithm,
                          pki.private_key, r, <<>>, NoSig)
            /\ UNCHANGED doc

\* sk.to_pkcs8_der()
ToPkcs8DerOp ==
    /\ Running
    /\ sk # NoKey
    /\ doc' = ToPkcs8Der(sk)
    /\ last' = Op("to_pkcs8_der", NoAlg, <<>>, NoOut, doc', NoSig)
    /\ UNCHANGED sk

\* SigningKey::from_pkcs8_der: the document written by to_pkcs8_der is read
\* back and its private-key-info is given to from_pkcs8_private_key_info
FromPkcs8DerOp ==
    /\ Running
    /\ doc # NoDoc
    /\ LET pki == DecodeDer(doc)
           r   == FromPkcs8PrivateKeyInfo(pki)
       IN  /\ sk' = Keep(r)
           /\ last' = Op("from_pkcs8_der", pki.algorithm, pki.private_key, r,
                         doc, NoSig)
    /\ UNCHANGED doc

\* SigningKey::from(document), for the written document or one from outside
FromDocumentOp ==
    \E der \in {EncodeDer(p) : p \in PkiSet} \cup {doc} :
        /\ Running
        /\ der # NoDoc
        /\ LET pki == DecodeDer(der)
               r   == FromDocument(der)
           IN  /\ sk' = Keep(r)
               /\ last' = Op("from_document", pki.algorithm, pki.private_key, r,
                             der, NoSig)
        /\ UNCHANGED doc

\* sk.zeroize()
ZeroizeOp ==
    /\ Running
    /\ sk # NoKey
    /\ sk' = ZeroizeKey(sk)
    /\ last' = Op("zeroize", NoAlg, <<>>, NoOut, <<>>, NoSig)
    /\ UNCHANGED doc

\* sk.sign(msg)
SignOp ==
    \E msg \in MsgSet :
        /\ Running
        /\ sk # NoKey
        /\ last' = Op("sign", NoAlg, msg, NoOut, <<>>, SignMsg(sk, msg))
        /\ UNCHANGED <<sk, doc>>

\* <[u8; 32]>::from(sk) and sk.as_ref(): the seed
SeedOp ==
    /\ Running
    /\ sk # NoKey
    /\ last' = Op("seed", NoAlg, <<>>, NoOut, sk.seed, NoSig)
    /\ UNCHANGED <<sk, doc>>

\* VerificationKey::from(&sk) and VerificationKeyBytes::from(&sk)
VerificationKeyOp ==
    /\ Running
    /\ sk # NoKey
    /\ last' = [Op("verification_key", NoAlg, <<>>, NoOut, sk.vk.A_bytes, NoSig)
                  EXCEPT !.vk = sk.vk]
    /\ UNCHANGED <<sk, doc>>

Next ==
    \/ New
    \/ From32
    \/ TryFromSliceOp
    \/ TryFromPrivateKeyInfoOp
    \/ FromPkcs8PrivateKeyInfoOp
    \/ ToPkcs8DerOp
    \/ FromPkcs8DerOp
    \/ FromDocumentOp
    \/ ZeroizeOp
    \/ SignOp
    \/ SeedOp
    \/ VerificationKeyOp

Spec == Init /\ [][Next]_vars

TypeOK ==
    /\ sk = NoKey \/ (Len(sk.seed) = 32 /\ Len(sk.s) = 32 /\ Len(sk.prefix) = 32)
    /\ last.out.tag \in {"None", "Ok", "Err", "Panic"}

\* ------------------------------------------------------------------------
\* What the specification says of Key Derivation and Signing (section 4.1,
\* 4.2), written with integer arithmetic on the bytes
\* ------------------------------------------------------------------------
KeyDerivation(seed) ==
    LET h      == Sha512(seed)
        scalar == [j \in 1..32 |->
                     IF j = 1 THEN h[1] - (h[1] % 8)
                     ELSE IF j = 32 THEN (h[32] % 64) + 64
                     ELSE h[j]]
        A      == BasepointMul(scalar)
    IN  [seed |-> seed, s |-> scalar, prefix |-> [j \in 1..32 |-> h[32 + j]],
         vk |-> [minus_A |-> PointNeg(A), A_bytes |-> Compress(A)]]

Signing(k, m) ==
    LET r == LEModOrder(Sha512(k.prefix \o m))
        R == Compress(r)
        c == LEModOrder(Sha512(R \o k.vk.A_bytes \o m))
        s == (r + c * LEModOrder(k.s)) % GroupOrder
    IN  [R_bytes |-> R, s_bytes |-> ToLE(s, 32)]

\* the private-key-info an operation of last was given
LastPki == [algorithm |-> last.alg, private_key |-> last.bytes]

PkiOps == {"try_from_pki", "from_pkcs8_private_key_info", "from_pkcs8_der"}

\* ------------------------------------------------------------------------
\* Claims
\* ------------------------------------------------------------------------

\* C1: container round trip.  When the document written by to_pkcs8_der for
\* the key derived from a seed s is decoded by from_pkcs8_private_key_info,
\* the decode succeeds and returns the key derived from s, equal in seed,
\* scalar, prefix and public key.
C1_ContainerRoundTrip ==
    \A sd \in SeedSet :
        (last.op = "from_pkcs8_der" /\ doc = ToPkcs8Der(KeyDerivation(sd)))
            => last.out = Ok(KeyDerivation(sd))

C1_Witness ==
    /\ last.op = "from_pkcs8_der"
    /\ doc = ToPkcs8Der(KeyDerivation(Seed(1)))
    /\ sk.seed = Seed(1)

\* C2: algorithm-identifier rejection.  Decoding a private-key-info whose
\* algorithm identifier is not exactly ALGORITHM_ID produces no SigningKey,
\* whatever the payload.
C2_AlgorithmRejection ==
    (last.op \in PkiOps /\ last.alg # ALGORITHM_ID) => last.out.tag # "Ok"

\* C3: framing and length rejection.  For a payload of at least 2 bytes,
\* from_pkcs8_private_key_info succeeds exactly when the payload is 04 20
\* followed by 32 bytes; otherwise it returns the decode error; on success
\* the seed is the 32 bytes after the framing.
C3_FramingAndLength ==
    (last.op \in {"from_pkcs8_private_key_info", "from_pkcs8_der"}
     /\ Len(last.bytes) >= 2)
        => LET framed == /\ last.bytes[1] = 4
                         /\ last.bytes[2] = 32
                         /\ Len(last.bytes) = 34
           IN  /\ (last.out.tag = "Ok") <=> framed
               /\ ~framed => last.out = Err("Decode")
               /\ framed => last.out.key.seed = SubSeq(last.bytes, 3, 34)

C3_Witness ==
    /\ last.op = "from_pkcs8_private_key_info"
    /\ last.bytes = <<4, 33>> \o Seed(1)
    /\ last.out = Err("Decode")

\* C4: zeroization.  After zeroize the seed, the scalar and the prefix of
\* the key are all zero bytes.
C4_Zeroization ==
    last.op = "zeroize"
        => (sk.seed = Zero32 /\ sk.s = Zero32 /\ sk.prefix = Zero32)

\* C5: errors are values.  No construction or decode operation panics.
C5_NoPanic ==
    (last.op \in PkiOps \cup {"try_from_slice", "from_document"})
        => last.out.tag \in {"Ok", "Err"}

\* C6: length rejection.  try_from(slice) returns InvalidSliceLength exactly
\* when the slice is not 32 bytes long; for 32 bytes it succeeds and the
\* seed of the key is the slice.
C6_LengthRejection ==
    last.op = "try_from_slice"
        => /\ (last.out = Err("InvalidSliceLength")) <=> (Len(last.bytes) # 32)
           /\ Len(last.bytes) = 32
                => (last.out.tag = "Ok" /\ last.out.key.seed = last.bytes)

C6_Witness ==
    /\ last.op = "try_from_slice"
    /\ Len(last.bytes) = 33
    /\ last.out = Err("InvalidSliceLength")

\* C7: clamping invariant.  The scalar of every key a constructor returns has
\* bits 0, 1, 2 and 255 clear and bit 254 set, and is otherwise the low 32
\* bytes of the digest of the seed.
C7_Clamping ==
    last.out.tag = "Ok"
        => LET k == last.out.key
               h == Sha512(k.seed)
           IN  /\ k.s[1] % 8 = 0
               /\ k.s[32] \div 128 = 0
               /\ (k.s[32] \div 64) % 2 = 1
               /\ k.s[1] \div 8 = h[1] \div 8
               /\ k.s[32] % 64 = h[32] % 64
               /\ \A j \in 2..31 : k.s[j] = h[j]

\* a key whose digest has low bits set in byte 0, bit 255 set and bit 254 clear
C7_Witness ==
    /\ last.out.tag = "Ok"
    /\ LET h == Sha512(last.out.key.seed)
       IN  h[1] % 8 # 0 /\ h[32] >= 128 /\ (h[32] \div 64) % 2 = 0

\* C8 as stated: in every reachable state of a key, its scalar, prefix and
\* public key are those Key Derivation produces from its current seed.
C8_DerivedFields == sk # NoKey => sk = KeyDerivation(sk.seed)

\* C8 amended: in every reachable state of a key, either its scalar, prefix
\* and public key are those Key Derivation produces from its current seed,
\* or the key has been zeroized: its seed and scalar are all zero and its
\* prefix and public key are still those derived from the seed it had.
C8_DerivedUnlessZeroized ==
    sk # NoKey
        => \/ sk = KeyDerivation(sk.seed)
           \/ \E sd \in SeedSet :
                sk = [KeyDerivation(sd) EXCEPT !.seed = Zero32, !.s = Zero32]

C8_Witness ==
    /\ last.op = "sign"
    /\ sk = [KeyDerivation(Seed(1)) EXCEPT !.seed = Zero32, !.s = Zero32]

\* C9: signature assembly.  sign(msg) returns R = compress(r * B) and
\* s = r + k * scalar mod the group order, with r the reduced digest of
\* prefix || msg and k the reduced digest of R || public key bytes || msg,
\* and leaves the key unchanged.
C9_SignatureAssembly ==
    [][last'.op = "sign"
         => (sk' = sk /\ doc' = doc /\ last'.sig = Signing(sk, last'.bytes))]_vars

C9_Witness ==
    /\ last.op = "sign"
    /\ Len(last.bytes) = 2
    /\ sk = KeyDerivation(Seed(1))
    /\ last.sig.s_bytes # Zero32

\* C10: decoder agreement.  try_from(pki) and from_pkcs8_private_key_info(pki)
\* accept the same private-key-infos and, when they accept, give the same
\* seed.
C10_DecoderAgreement ==
    last.op \in PkiOps
        => LET a == TryFromPrivateKeyInfo(LastPki)
               b == FromPkcs8PrivateKeyInfo(LastPki)
           IN  /\ (a.tag = "Ok") <=> (b.tag = "Ok")
               /\ (a.tag = "Ok" /\ b.tag = "Ok") => a.key.seed = b.key.seed

====
